---- MODULE Spec2Model ----
(***************************************************************************)
(* Waitlist submission pipeline of techdio-web: the in-memory rate limiter *)
(* (isRateLimited over submissionTracker) and the POST /api/waitlist       *)
(* handler (validation chain, remote page-creation call, catch block).     *)
(***************************************************************************)
EXTENDS Integers, Sequences, FiniteSets, TLC

VARIABLES
  now,                \* Date.now(), milliseconds since the process started
  env,                \* process.env: which credentials are configured
  submissionTracker,  \* the Map: lower-cased email -> {count, firstSubmission}
  handlers,           \* the handler invocations in flight (suspended at the await)
  last,               \* the handler invocation that returned most recently
  log,                \* history of isRateLimited calls (recorded under SpecLimiter)
  express             \* the Express server run side by side: its Map, its route
                      \* invocations in flight and the one that returned last

vars == <<now, env, submissionTracker, handlers, last, log, express>>

----------------------------------------------------------------------------
(* Program constants *)

RATE_LIMIT_WINDOW == 15 * 60 * 1000

MAX_SUBMISSIONS_PER_EMAIL == 3

validRoles ==
  {"Student / Learner", "Tutor / Teacher", "School / Institute", "Developer / Researcher"}

(* Bounds of the model *)

MaxWindows == 1     \* the clock runs over MaxWindows window lengths

MaxCalls == 5       \* isRateLimited calls recorded in the history

MaxHandlers == 2    \* handler invocations suspended at the await at one time

Handlers == 1..MaxHandlers

\* Clock readings: each multiple of the window length and the millisecond after it.
Times == {k * RATE_LIMIT_WINDOW + e : k \in 0..MaxWindows, e \in {0, 1}}

----------------------------------------------------------------------------
(* JavaScript values of the request body.  A string is its sequence of      *)
(* characters; an array holding one string coerces to that string.          *)

Str(chars) == [type |-> "string", chars |-> chars]

Arr(chars) == [type |-> "array", chars |-> chars]

Undefined == [type |-> "undefined", chars |-> <<>>]

\* !v for the values above: undefined and "" are falsy, an array is truthy.
Falsy(v) == v.type = "undefined" \/ (v.type = "string" /\ v.chars = <<>>)

UpperCase ==
  <<"A","B","C","D","E","F","G","H","I","J","K","L","M",
    "N","O","P","Q","R","S","T","U","V","W","X","Y","Z">>

LowerCase ==
  <<"a","b","c","d","e","f","g","h","i","j","k","l","m",
    "n","o","p","q","r","s","t","u","v","w","x","y","z">>

LowerChar(c) ==
  IF \E i \in 1..26 : UpperCase[i] = c
    THEN LowerCase[CHOOSE i \in 1..26 : UpperCase[i] = c]
    ELSE c

toLowerCase(s) == [i \in 1..Len(s) |-> LowerChar(s[i])]

\* [^\s@]+ : one or more characters, none of them whitespace or "@"
NoSpaceAt(s) == Len(s) > 0 /\ \A i \in 1..Len(s) : s[i] \notin {" ", "\t", "\n", "@"}

\* /^[^\s@]+@[^\s@]+\.[^\s@]+$/ on a sequence of characters
RegexTest(s) ==
  \E i \in 1..Len(s) : \E j \in 1..Len(s) :
    /\ i < j
    /\ s[i] = "@"
    /\ s[j] = "."
    /\ NoSpaceAt(SubSeq(s, 1, i - 1))
    /\ NoSpaceAt(SubSeq(s, i + 1, j - 1))
    /\ NoSpaceAt(SubSeq(s, j + 1, Len(s)))

\* emailRegex.test(email): test() coerces its argument to a string
validateEmail(email) == RegexTest(email.chars)

----------------------------------------------------------------------------
(* Rate limiter *)

HasEntry(tracker, email) == email \in DOMAIN tracker

\* mutant of MapSet: the map is replaced by one holding the new entry alone
MapSetClobber(tracker, email, entry) == [k \in {email} |-> entry]

MapSet(tracker, email, entry) ==
  [k \in DOMAIN tracker \cup {email} |-> IF k = email THEN entry ELSE tracker[k]]

\* mutant of WindowPassed: the window is over as soon as the clock has moved
WindowPassedAnyTick(t, emailData) == t > emailData.firstSubmission

\* mutant of WindowPassed: the boundary instant already belongs to the new window
WindowPassedInclusive(t, emailData) ==
  t - emailData.firstSubmission >= RATE_LIMIT_WINDOW

\* now - emailData.firstSubmission > RATE_LIMIT_WINDOW
WindowPassed(t, emailData) == t - emailData.firstSubmission > RATE_LIMIT_WINDOW

\* mutant of OverLimit: the comparison written > instead of >=
OverLimitOffByOne(emailData) == emailData.count > MAX_SUBMISSIONS_PER_EMAIL

OverLimit(emailData) == emailData.count >= MAX_SUBMISSIONS_PER_EMAIL

\* mutant of isRateLimited: entries of other emails whose window is over are
\* swept out of the map on the way
isRateLimitedEvicts(tracker, email, t) ==
  LET kept == [k \in {k \in DOMAIN tracker : k = email \/ ~WindowPassed(t, tracker[k])}
                 |-> tracker[k]] IN
  IF ~HasEntry(kept, email)
    THEN [limited |-> FALSE,
          tracker |-> MapSet(kept, email, [count |-> 1, firstSubmission |-> t])]
  ELSE IF WindowPassed(t, kept[email])
    THEN [limited |-> FALSE,
          tracker |-> MapSet(kept, email, [count |-> 1, firstSubmission |-> t])]
  ELSE IF OverLimit(kept[email])
    THEN [limited |-> TRUE, tracker |-> kept]
  ELSE [limited |-> FALSE,
        tracker |-> [kept EXCEPT ![email].count = @ + 1]]

\* mutant of isRateLimited: a blocked attempt starts the waiting time afresh
isRateLimitedBlockExtends(tracker, email, t) ==
  IF ~HasEntry(tracker, email)
    THEN [limited |-> FALSE,
          tracker |-> MapSet(tracker, email, [count |-> 1, firstSubmission |-> t])]
  ELSE IF WindowPassed(t, tracker[email])
    THEN [limited |-> FALSE,
          tracker |-> MapSet(tracker, email, [count |-> 1, firstSubmission |-> t])]
  ELSE IF OverLimit(tracker[email])
    THEN [limited |-> TRUE, tracker |-> [tracker EXCEPT ![email].firstSubmission = t]]
  ELSE [limited |-> FALSE,
        tracker |-> [tracker EXCEPT ![email].count = @ + 1]]

\* mutant of isRateLimited: a blocked attempt is counted too
isRateLimitedCountsBlocked(tracker, email, t) ==
  IF ~HasEntry(tracker, email)
    THEN [limited |-> FALSE,
          tracker |-> MapSet(tracker, email, [count |-> 1, firstSubmission |-> t])]
  ELSE IF WindowPassed(t, tracker[email])
    THEN [limited |-> FALSE,
          tracker |-> MapSet(tracker, email, [count |-> 1, firstSubmission |-> t])]
  ELSE [limited |-> OverLimit(tracker[email]),
        tracker |-> [tracker EXCEPT ![email].count = @ + 1]]

\* mutant of isRateLimited: an elapsed window is not reset, the count goes on
isRateLimitedNoReset(tracker, email, t) ==
  IF ~HasEntry(tracker, email)
    THEN [limited |-> FALSE,
          tracker |-> MapSet(tracker, email, [count |-> 1, firstSubmission |-> t])]
  ELSE IF OverLimit(tracker[email]) /\ ~WindowPassed(t, tracker[email])
    THEN [limited |-> TRUE, tracker |-> tracker]
  ELSE [limited |-> FALSE,
        tracker |-> [tracker EXCEPT ![email].count = @ + 1]]

\* isRateLimited(email) at clock reading t: the verdict and the map afterwards
isRateLimited(tracker, email, t) ==
  IF ~HasEntry(tracker, email)
    THEN [limited |-> FALSE,
          tracker |-> MapSet(tracker, email, [count |-> 1, firstSubmission |-> t])]
  ELSE IF WindowPassed(t, tracker[email])
    THEN [limited |-> FALSE,
          tracker |-> MapSet(tracker, email, [count |-> 1, firstSubmission |-> t])]
  ELSE IF OverLimit(tracker[email])
    THEN [limited |-> TRUE, tracker |-> tracker]
  ELSE [limited |-> FALSE,
        tracker |-> [tracker EXCEPT ![email].count = @ + 1]]

----------------------------------------------------------------------------
(* Responses *)

Json(status, success, message) ==
  [status |-> status, json |-> TRUE, success |-> success, message |-> message]

NoResponse == [status |-> 0, json |-> FALSE, success |-> FALSE, message |-> ""]

\* res.status(200).end()
EndOk == [status |-> 200, json |-> FALSE, success |-> FALSE, message |-> ""]

\* An error as the catch block reads it: error.response (and its status), error.code
\* (error.response.data and error.message are the detail the upstream or axios gave)
ErrResponse(status) ==
  [response |-> TRUE, status |-> status, code |-> "ERR_BAD_RESPONSE", data |-> ""]

ErrTimeout == [response |-> FALSE, status |-> 0, code |-> "ECONNABORTED", data |-> ""]

ErrNetwork == [response |-> FALSE, status |-> 0, code |-> "ECONNRESET", data |-> ""]

\* a TypeError thrown by the handler's own code: no response, no code
ErrType == [response |-> FALSE, status |-> 0, code |-> "undefined", data |-> ""]

\* the same error carrying the given upstream body or message
WithData(error, data) == [error EXCEPT !.data = data]

\* mutant of CatchBlock: the upstream body or message is echoed to the caller
CatchBlockLeaks(error) ==
  IF error.response
    THEN Json(IF error.status \in {400, 429} THEN error.status ELSE 500, FALSE, error.data)
  ELSE IF error.code = "ECONNABORTED"
    THEN Json(408, FALSE, "Request timeout. Please try again.")
  ELSE Json(500, FALSE, error.data)

\* mutant of CatchBlock: the upstream status is passed through to the caller
CatchBlockPassThrough(error) ==
  IF error.response
    THEN Json(error.status, FALSE, "Something went wrong. Please try again.")
  ELSE IF error.code = "ECONNABORTED"
    THEN Json(408, FALSE, "Request timeout. Please try again.")
  ELSE Json(500, FALSE, "Network error. Please check your connection and try again.")

\* the catch block
CatchBlock(error) ==
  IF error.response
    THEN CASE error.status = 400 ->
                Json(400, FALSE, "Invalid request format. Please try again.")
           [] error.status = 401 ->
                Json(500, FALSE, "Server authentication error. Please contact support.")
           [] error.status = 404 ->
                Json(500, FALSE, "Database configuration error. Please contact support.")
           [] error.status = 429 ->
                Json(429, FALSE, "Server is busy. Please try again in a moment.")
           [] OTHER ->
                Json(500, FALSE, "Something went wrong. Please try again.")
  ELSE IF error.code = "ECONNABORTED"
    THEN Json(408, FALSE, "Request timeout. Please try again.")
  ELSE Json(500, FALSE, "Network error. Please check your connection and try again.")

----------------------------------------------------------------------------
(* The POST /api/waitlist handler *)

RoleStr(text) == [type |-> "string", text |-> text]

RoleUndefined == [type |-> "undefined", text |-> ""]

\* !role
RoleFalsy(role) == role.type = "undefined" \/ role.text = ""

\* mutant of RoleIncluded: any text is taken for a role
RoleIncludedAnyText(role) == role.type = "string"

\* validRoles.includes(role)
RoleIncluded(role) == role.type = "string" /\ role.text \in validRoles

\* mutant of NotConfigured: && written for ||
NotConfiguredBoth(environment) ==
  ~environment.NOTION_TOKEN /\ ~environment.NOTION_DATABASE_ID

\* !process.env.NOTION_TOKEN || !process.env.NOTION_DATABASE_ID
NotConfigured(environment) ==
  ~environment.NOTION_TOKEN \/ ~environment.NOTION_DATABASE_ID

\* What the synchronous part of one invocation did: the responses it sent, whether
\* it issued the remote call, the map afterwards, whether the limiter was called
\* and its verdict, and whether an exception was thrown inside the try block.
Did(sent, call, tracker, consulted, limited, threw) ==
  [sent |-> sent, call |-> call, tracker |-> tracker,
   consulted |-> consulted, limited |-> limited, threw |-> threw]

Respond(resp, tracker, consulted, limited) ==
  Did(<<resp>>, FALSE, tracker, consulted, limited, FALSE)

\* mutant of Thrown: no catch, the exception leaves the handler and nothing is sent
ThrownEscapes(error, tracker, consulted) ==
  Did(<<>>, FALSE, tracker, consulted, FALSE, TRUE)

\* an exception thrown in the try block lands in the catch block
Thrown(error, tracker, consulted) ==
  Did(<<CatchBlock(error)>>, FALSE, tracker, consulted, FALSE, TRUE)

\* mutant of AfterLimiter: a request rejected after the limiter gets its attempt back
AfterLimiterRefunds(body, tracker, environment) ==
  LET refunded == [tracker EXCEPT ![toLowerCase(body.email.chars)].count = @ - 1] IN
  IF ~RoleIncluded(body.role)
    THEN Respond(Json(400, FALSE, "Invalid role selected"), refunded, TRUE, FALSE)
  ELSE IF NotConfigured(environment)
    THEN Respond(Json(500, FALSE, "Server configuration error. Please contact support."),
                 refunded, TRUE, FALSE)
  ELSE Did(<<>>, TRUE, tracker, TRUE, FALSE, FALSE)

\* mutant of AfterLimiter: the configuration check moved before the role check
AfterLimiterConfigFirst(body, tracker, environment) ==
  IF NotConfigured(environment)
    THEN Respond(Json(500, FALSE, "Server configuration error. Please contact support."),
                 tracker, TRUE, FALSE)
  ELSE IF ~RoleIncluded(body.role)
    THEN Respond(Json(400, FALSE, "Invalid role selected"), tracker, TRUE, FALSE)
  ELSE Did(<<>>, TRUE, tracker, TRUE, FALSE, FALSE)

\* role check, configuration check, then the awaited axios.post
AfterLimiter(body, tracker, environment) ==
  IF ~RoleIncluded(body.role)
    THEN Respond(Json(400, FALSE, "Invalid role selected"), tracker, TRUE, FALSE)
  ELSE IF NotConfigured(environment)
    THEN Respond(Json(500, FALSE, "Server configuration error. Please contact support."),
                 tracker, TRUE, FALSE)
  ELSE Did(<<>>, TRUE, tracker, TRUE, FALSE, FALSE)

\* mutant of LimiterStep: the limiter is keyed by the email as it was typed
LimiterStepRawKey(body, tracker, environment, t) ==
  LET rl == isRateLimited(tracker, body.email.chars, t) IN
  IF rl.limited
    THEN Respond(Json(429, FALSE, "Too many submissions. Please try again later."),
                 rl.tracker, TRUE, TRUE)
    ELSE AfterLimiter(body, rl.tracker, environment)

\* mutant of LimiterStep: the verdict is computed and then ignored
LimiterStepIgnoresVerdict(body, tracker, environment, t) ==
  LET rl == isRateLimited(tracker, toLowerCase(body.email.chars), t) IN
  AfterLimiter(body, rl.tracker, environment)

\* the rate-limit step on email.toLowerCase()
LimiterStep(body, tracker, environment, t) ==
  LET rl == isRateLimited(tracker, toLowerCase(body.email.chars), t) IN
  IF rl.limited
    THEN Respond(Json(429, FALSE, "Too many submissions. Please try again later."),
                 rl.tracker, TRUE, TRUE)
    ELSE AfterLimiter(body, rl.tracker, environment)

\* mutant of TryBlock: the limiter is asked before the email is validated
TryBlockLimiterFirst(body, tracker, environment, t) ==
  IF body.type # "object"
    THEN Thrown(ErrType, tracker, FALSE)
  ELSE IF Falsy(body.email) \/ RoleFalsy(body.role)
    THEN Respond(Json(400, FALSE, "Email and role are required"), tracker, FALSE, FALSE)
  ELSE IF body.email.type # "string"
    THEN Thrown(ErrType, tracker, FALSE)
  ELSE LET rl == isRateLimited(tracker, toLowerCase(body.email.chars), t) IN
       IF rl.limited
         THEN Respond(Json(429, FALSE, "Too many submissions. Please try again later."),
                      rl.tracker, TRUE, TRUE)
       ELSE IF ~validateEmail(body.email)
         THEN Respond(Json(400, FALSE, "Please enter a valid email address"),
                      rl.tracker, TRUE, FALSE)
       ELSE AfterLimiter(body, rl.tracker, environment)

\* the try block up to the await
TryBlock(body, tracker, environment, t) ==
  IF body.type # "object"
    THEN Thrown(ErrType, tracker, FALSE)       \* destructuring a null body
  ELSE IF Falsy(body.email) \/ RoleFalsy(body.role)
    THEN Respond(Json(400, FALSE, "Email and role are required"), tracker, FALSE, FALSE)
  ELSE IF ~validateEmail(body.email)
    THEN Respond(Json(400, FALSE, "Please enter a valid email address"),
                 tracker, FALSE, FALSE)
  ELSE IF body.email.type # "string"
    THEN Thrown(ErrType, tracker, FALSE)       \* email.toLowerCase is not a function
  ELSE LimiterStep(body, tracker, environment, t)

\* module.exports up to the await
Handler(req, tracker, environment, t) ==
  IF req.method = "OPTIONS"
    THEN Respond(EndOk, tracker, FALSE, FALSE)
  ELSE IF req.method # "POST"
    THEN Respond(Json(405, FALSE, "Method Not Allowed"), tracker, FALSE, FALSE)
  ELSE TryBlock(req.body, tracker, environment, t)

\* how the awaited call settles: it resolves, or rejects with an error
Resolved == [ok |-> TRUE, error |-> ErrNetwork]

Rejected(error) == [ok |-> FALSE, error |-> error]

\* the handler after the await: res.json on success, the catch block otherwise
AfterAwait(outcome) ==
  IF outcome.ok
    THEN Json(200, TRUE, "Successfully added to waitlist! We'll be in touch soon.")
    ELSE CatchBlock(outcome.error)

----------------------------------------------------------------------------
(* Requests *)

ObjectBody(email, role) == [type |-> "object", email |-> email, role |-> role]

NullBody == [type |-> "null", email |-> Undefined, role |-> RoleUndefined]

Post(body) == [method |-> "POST", body |-> body]

NoRequest == [method |-> "", body |-> NullBody]

\* no outcome yet: the call was not issued or has not settled
Pending ==
  [ok |-> FALSE, error |-> [response |-> FALSE, status |-> 0, code |-> "", data |-> ""]]

\* One invocation: where it stands (pc), its request, whether the limiter was
\* called and its verdict, whether the try block threw, the remote calls issued,
\* how the (last) call settled, and the responses sent.
Idle ==
  [pc |-> "idle", req |-> NoRequest, consulted |-> FALSE, limited |-> FALSE,
   threw |-> FALSE, calls |-> 0, outcome |-> Pending, sent |-> <<>>]

\* request bodies of the pipeline specification
MixedEmail == <<"A", "@", "b", ".", "c">>

Emails ==
  {Undefined, Str(<<>>), Str(<<"A", "@", "b">>), Str(MixedEmail), Arr(MixedEmail)}

Roles == {RoleUndefined, RoleStr("Student / Learner"), RoleStr("student / learner")}

Requests ==
  {Post(ObjectBody(e, r)) : e \in Emails, r \in Roles}
    \cup {Post(NullBody), [method |-> "GET", body |-> NullBody],
          [method |-> "OPTIONS", body |-> NullBody]}

UpstreamStatuses == {400, 401, 403, 404, 429, 500, 503}

Outcomes ==
  {Resolved, Rejected(ErrTimeout), Rejected(ErrNetwork)}
    \cup {Rejected(ErrResponse(st)) : st \in UpstreamStatuses}

\* request bodies of the limiter specification: two identities, all well formed
LimiterRequests ==
  {Post(ObjectBody(Str(e), RoleStr("Tutor / Teacher"))) :
     e \in {<<"a", "@", "b", ".", "c">>, <<"d", "@", "e", ".", "f">>}}

\* the rate-limit key of a request
Identity(req) == toLowerCase(req.body.email.chars)

Identities == {Identity(req) : req \in LimiterRequests}

EmptyLog == [id \in Identities |-> <<>>]

----------------------------------------------------------------------------
(* The Express server: its own validateEmail, Map, constants, isRateLimited *)
(* and the route app.post('/api/waitlist').                                 *)

ExpressValidateEmail(email) == RegexTest(email.chars)

ExpressRateLimitWindow == 15 * 60 * 1000

ExpressMaxSubmissionsPerEmail == 3

ExpressValidRoles ==
  {"Student / Learner", "Tutor / Teacher", "School / Institute", "Developer / Researcher"}

\* isRateLimited(email) of the server at clock reading t
ExpressIsRateLimited(tracker, email, t) ==
  IF email \notin DOMAIN tracker
    THEN [limited |-> FALSE,
          tracker |-> [k \in DOMAIN tracker \cup {email} |->
                         IF k = email THEN [count |-> 1, firstSubmission |-> t]
                         ELSE tracker[k]]]
  ELSE IF t - tracker[email].firstSubmission > ExpressRateLimitWindow
    THEN [limited |-> FALSE,
          tracker |-> [tracker EXCEPT ![email] = [count |-> 1, firstSubmission |-> t]]]
  ELSE IF tracker[email].count >= ExpressMaxSubmissionsPerEmail
    THEN [limited |-> TRUE, tracker |-> tracker]
  ELSE [limited |-> FALSE,
        tracker |-> [tracker EXCEPT ![email].count = @ + 1]]

\* the catch block of the route
ExpressCatchBlock(error) ==
  IF error.response
    THEN CASE error.status = 400 ->
                Json(400, FALSE, "Invalid request format. Please try again.")
           [] error.status = 401 ->
                Json(500, FALSE, "Server authentication error. Please contact support.")
           [] error.status = 404 ->
                Json(500, FALSE, "Database configuration error. Please contact support.")
           [] error.status = 429 ->
                Json(429, FALSE, "Server is busy. Please try again in a moment.")
           [] OTHER ->
                Json(500, FALSE, "Something went wrong. Please try again.")
  ELSE IF error.code = "ECONNABORTED"
    THEN Json(408, FALSE, "Request timeout. Please try again.")
  ELSE Json(500, FALSE, "Network error. Please check your connection and try again.")

\* mutant of ExpressRoute: the role is checked before the limiter is asked
ExpressRouteRoleFirst(body, tracker, environment, t) ==
  IF body.type # "object"
    THEN Did(<<ExpressCatchBlock(ErrType)>>, FALSE, tracker, FALSE, FALSE, TRUE)
  ELSE IF Falsy(body.email) \/ RoleFalsy(body.role)
    THEN Respond(Json(400, FALSE, "Email and role are required"), tracker, FALSE, FALSE)
  ELSE IF ~ExpressValidateEmail(body.email)
    THEN Respond(Json(400, FALSE, "Please enter a valid email address"),
                 tracker, FALSE, FALSE)
  ELSE IF body.email.type # "string"
    THEN Did(<<ExpressCatchBlock(ErrType)>>, FALSE, tracker, FALSE, FALSE, TRUE)
  ELSE IF ~(body.role.type = "string" /\ body.role.text \in ExpressValidRoles)
    THEN Respond(Json(400, FALSE, "Invalid role selected"), tracker, FALSE, FALSE)
  ELSE LET rl == ExpressIsRateLimited(tracker, toLowerCase(body.email.chars), t) IN
       IF rl.limited
         THEN Respond(Json(429, FALSE, "Too many submissions. Please try again later."),
                      rl.tracker, TRUE, TRUE)
       ELSE IF ~environment.NOTION_TOKEN \/ ~environment.NOTION_DATABASE_ID
         THEN Respond(Json(500, FALSE,
                           "Server configuration error. Please contact support."),
                      rl.tracker, TRUE, FALSE)
       ELSE Did(<<>>, TRUE, rl.tracker, TRUE, FALSE, FALSE)

\* the route up to the await
ExpressRoute(body, tracker, environment, t) ==
  IF body.type # "object"
    THEN Did(<<ExpressCatchBlock(ErrType)>>, FALSE, tracker, FALSE, FALSE, TRUE)
  ELSE IF Falsy(body.email) \/ RoleFalsy(body.role)
    THEN Respond(Json(400, FALSE, "Email and role are required"), tracker, FALSE, FALSE)
  ELSE IF ~ExpressValidateEmail(body.email)
    THEN Respond(Json(400, FALSE, "Please enter a valid email address"),
                 tracker, FALSE, FALSE)
  ELSE IF body.email.type # "string"
    THEN Did(<<ExpressCatchBlock(ErrType)>>, FALSE, tracker, FALSE, FALSE, TRUE)
  ELSE LET rl == ExpressIsRateLimited(tracker, toLowerCase(body.email.chars), t) IN
       IF rl.limited
         THEN Respond(Json(429, FALSE, "Too many submissions. Please try again later."),
                      rl.tracker, TRUE, TRUE)
       ELSE IF ~(body.role.type = "string" /\ body.role.text \in ExpressValidRoles)
         THEN Respond(Json(400, FALSE, "Invalid role selected"), rl.tracker, TRUE, FALSE)
       ELSE IF ~environment.NOTION_TOKEN \/ ~environment.NOTION_DATABASE_ID
         THEN Respond(Json(500, FALSE,
                           "Server configuration error. Please contact support."),
                      rl.tracker, TRUE, FALSE)
       ELSE Did(<<>>, TRUE, rl.tracker, TRUE, FALSE, FALSE)

\* the route after the await
ExpressAfterAwait(outcome) ==
  IF outcome.ok
    THEN Json(200, TRUE, "Successfully added to waitlist! We'll be in touch soon.")
    ELSE ExpressCatchBlock(outcome.error)

\* the server after start-up: an empty Map, no request in flight
ExpressStart ==
  [tracker |-> <<>>, handlers |-> [s \in Handlers |-> Idle], last |-> Idle]

\* the server receives a POST and its route runs up to the await or to its response
ExpressReceive(ex, s, req, environment, t) ==
  LET d == ExpressRoute(req.body, ex.tracker, environment, t)
      inv == [pc |-> IF d.call THEN "awaiting" ELSE "done", req |-> req,
              consulted |-> d.consulted, limited |-> d.limited, threw |-> d.threw,
              calls |-> IF d.call THEN 1 ELSE 0, outcome |-> Pending,
              sent |-> d.sent]
  IN [tracker |-> d.tracker,
      handlers |-> IF d.call THEN [ex.handlers EXCEPT ![s] = inv] ELSE ex.handlers,
      last |-> IF d.call THEN ex.last ELSE inv]

\* the awaited call of the server's invocation s settles and the route responds
ExpressSettle(ex, s, outcome) ==
  IF ex.handlers[s].pc # "awaiting" THEN ex
  ELSE [tracker |-> ex.tracker,
        handlers |-> [ex.handlers EXCEPT ![s] = Idle],
        last |-> [ex.handlers[s] EXCEPT !.pc = "done", !.outcome = outcome,
                                        !.sent = Append(@, ExpressAfterAwait(outcome))]]

----------------------------------------------------------------------------
(* Actions *)

Init ==
  /\ now = 0
  /\ env \in [NOTION_TOKEN : BOOLEAN, NOTION_DATABASE_ID : BOOLEAN]
  /\ submissionTracker = <<>>
  /\ handlers = [s \in Handlers |-> Idle]
  /\ last = Idle
  /\ log = EmptyLog
  /\ express = ExpressStart

\* time passes
Tick ==
  /\ \E t \in Times : t > now /\ now' = t
  /\ UNCHANGED <<env, submissionTracker, handlers, last, log, express>>

\* A request arrives and its handler runs up to the await or to its response.
Invoke(s, req) ==
  /\ handlers[s].pc = "idle"
  /\ LET d == Handler(req, submissionTracker, env, now)
         inv == [pc |-> IF d.call THEN "awaiting" ELSE "done", req |-> req,
                 consulted |-> d.consulted, limited |-> d.limited, threw |-> d.threw,
                 calls |-> IF d.call THEN 1 ELSE 0, outcome |-> Pending,
                 sent |-> d.sent]
     IN /\ submissionTracker' = d.tracker
        /\ IF d.call
             THEN handlers' = [handlers EXCEPT ![s] = inv] /\ UNCHANGED last
             ELSE last' = inv /\ UNCHANGED handlers
  /\ UNCHANGED <<now, env>>

Receive(s, req) == Invoke(s, req) /\ UNCHANGED <<log, express>>

\* mutant of Settle: a failed call is issued once more before the handler answers
SettleRetry(s, outcome) ==
  /\ handlers[s].pc = "awaiting"
  /\ IF ~outcome.ok /\ handlers[s].calls < 2
       THEN /\ handlers' = [handlers EXCEPT ![s].calls = @ + 1]
            /\ UNCHANGED last
       ELSE /\ last' = [handlers[s] EXCEPT !.pc = "done", !.outcome = outcome,
                                           !.sent = Append(@, AfterAwait(outcome))]
            /\ handlers' = [handlers EXCEPT ![s] = Idle]
  /\ UNCHANGED <<now, env, submissionTracker, log, express>>

\* The awaited call settles and the handler sends its response.
Settle(s, outcome) ==
  /\ handlers[s].pc = "awaiting"
  /\ last' = [handlers[s] EXCEPT !.pc = "done", !.outcome = outcome,
                                  !.sent = Append(@, AfterAwait(outcome))]
  /\ handlers' = [handlers EXCEPT ![s] = Idle]
  /\ UNCHANGED <<now, env, submissionTracker, log, express>>

----------------------------------------------------------------------------
(* The side-by-side specification: the serverless handler and the Express   *)
(* route are given the same POST bodies at the same clock readings, under   *)
(* the same configuration, and their remote calls settle the same way.      *)

EquivRequests == {req \in Requests : req.method = "POST"}

ReceiveBoth(s, req) ==
  /\ Invoke(s, req)
  /\ express' = ExpressReceive(express, s, req, env, now)
  /\ UNCHANGED log

SettleBoth(s, outcome) ==
  /\ handlers[s].pc = "awaiting"
  /\ last' = [handlers[s] EXCEPT !.pc = "done", !.outcome = outcome,
                                  !.sent = Append(@, AfterAwait(outcome))]
  /\ handlers' = [handlers EXCEPT ![s] = Idle]
  /\ express' = ExpressSettle(express, s, outcome)
  /\ UNCHANGED <<now, env, submissionTracker, log>>

NextEquiv ==
  \/ Tick
  \/ \E s \in Handlers : \E req \in EquivRequests : ReceiveBoth(s, req)
  \/ \E s \in Handlers : \E outcome \in Outcomes : SettleBoth(s, outcome)

SpecEquiv == Init /\ [][NextEquiv]_vars

----------------------------------------------------------------------------
Next ==
  \/ Tick
  \/ \E s \in Handlers : \E req \in Requests : Receive(s, req)
  \/ \E s \in Handlers : \E outcome \in Outcomes : Settle(s, outcome)

Spec == Init /\ [][Next]_vars

\* axios settles every call: the upstream answers or the 10 s timeout fires
FairSpec == Spec /\ \A s \in Handlers : WF_vars(\E outcome \in Outcomes : Settle(s, outcome))

----------------------------------------------------------------------------
(* The limiter specification: the same handler, with every isRateLimited    *)
(* call recorded per identity: the clock reading, the verdict, and the      *)
(* identity's entry after the call.                                         *)

LogEntry(id, t, limited, tracker) ==
  [t |-> t, limited |-> limited,
   count |-> tracker[id].count, windowStart |-> tracker[id].firstSubmission]

\* the calls recorded so far, over all identities
LogSize == LET RECURSIVE Sum(_)
               Sum(S) == IF S = {} THEN 0
                         ELSE LET x == CHOOSE x \in S : TRUE
                              IN Len(log[x]) + Sum(S \ {x})
           IN Sum(Identities)

\* A deployment with no target database configured: every well-formed request is
\* answered right after the limiter, so no invocation is left in flight.
InitLimiter ==
  /\ now = 0
  /\ env = [NOTION_TOKEN |-> TRUE, NOTION_DATABASE_ID |-> FALSE]
  /\ submissionTracker = <<>>
  /\ handlers = [s \in Handlers |-> Idle]
  /\ last = Idle
  /\ log = EmptyLog
  /\ express = ExpressStart

ReceiveLogged(s, req) ==
  /\ LogSize < MaxCalls
  /\ Invoke(s, req)
  /\ LET d == Handler(req, submissionTracker, env, now)
     IN log' = IF d.consulted
                 THEN [log EXCEPT ![Identity(req)] =
                         Append(@, LogEntry(Identity(req), now, d.limited, d.tracker))]
                 ELSE log
  /\ UNCHANGED express

NextLimiter ==
  \/ Tick
  \/ \E s \in Handlers : \E req \in LimiterRequests : ReceiveLogged(s, req)

SpecLimiter == InitLimiter /\ [][NextLimiter]_vars

\* Concurrent invocations for one identity, credentials configured: each handler
\* that passes the checks is suspended at the await while others run.
RaceRequests ==
  {Post(ObjectBody(Str(<<"a", "@", "b", ".", "c">>), RoleStr("Tutor / Teacher")))}

RaceOutcomes == {Resolved, Rejected(ErrTimeout)}

InitRace ==
  /\ now = 0
  /\ env = [NOTION_TOKEN |-> TRUE, NOTION_DATABASE_ID |-> TRUE]
  /\ submissionTracker = <<>>
  /\ handlers = [s \in Handlers |-> Idle]
  /\ last = Idle
  /\ log = EmptyLog
  /\ express = ExpressStart

NextRace ==
  \/ Tick
  \/ \E s \in Handlers : \E req \in RaceRequests : ReceiveLogged(s, req)
  \/ \E s \in Handlers : \E outcome \in RaceOutcomes : Settle(s, outcome)

SpecRace == InitRace /\ [][NextRace]_vars

----------------------------------------------------------------------------
(* Claims *)

Window(S, k) == S[k].t - S[1].t <= RATE_LIMIT_WINDOW

\* the response of the invocation that returned most recently
Answer == last.sent[1]

\* C1: for an identity that starts with no entry, the first three calls made
\* within the window of the first call are not limited, a fourth call within that
\* window is limited and the handler answers 429, and the first call made more
\* than RATE_LIMIT_WINDOW after the window start is not limited and leaves the
\* entry at count = 1.
C1_ThreePassFourthBlockedThenReset ==
  /\ \A id \in Identities :
       LET S == log[id] IN
       \A k \in 1..Len(S) :
         /\ (k <= 3 /\ Window(S, k)) => ~S[k].limited
         /\ (k = 4 /\ Window(S, k)) => S[k].limited
         /\ (~Window(S, k) /\ \A j \in 1..(k - 1) : Window(S, j))
              => (~S[k].limited /\ S[k].count = 1 /\ S[k].windowStart = S[k].t)
  /\ (last.pc = "done" /\ last.limited) =>
       (last.sent = <<Json(429, FALSE, "Too many submissions. Please try again later.")>>)

C1_Witness ==
  \E id \in Identities :
    /\ Len(log[id]) = 5
    /\ Window(log[id], 4) /\ log[id][4].limited
    /\ ~Window(log[id], 5) /\ log[id][5].count = 1
    /\ last.pc = "done" /\ Answer.status = 500

\* C2: every stored entry has 1 <= count <= MAX_SUBMISSIONS_PER_EMAIL, and a call
\* that arrives more than RATE_LIMIT_WINDOW after the entry's window start sets
\* the entry to {count: 1, firstSubmission: now} instead of incrementing.
C2_CountWithinCap ==
  /\ \A id \in DOMAIN submissionTracker :
       /\ submissionTracker[id].count >= 1
       /\ submissionTracker[id].count <= MAX_SUBMISSIONS_PER_EMAIL
  /\ \A id \in Identities :
       LET S == log[id] IN
       \A k \in 2..Len(S) :
         /\ S[k].count >= 1 /\ S[k].count <= MAX_SUBMISSIONS_PER_EMAIL
         /\ (S[k].t - S[k - 1].windowStart > RATE_LIMIT_WINDOW)
              => (S[k].count = 1 /\ S[k].windowStart = S[k].t)

C2_Witness ==
  \E id \in DOMAIN submissionTracker :
    /\ submissionTracker[id].count = 1
    /\ Len(log[id]) >= 4
    /\ log[id][Len(log[id]) - 1].count = MAX_SUBMISSIONS_PER_EMAIL
    /\ log[id][Len(log[id])].t - log[id][Len(log[id]) - 1].windowStart > RATE_LIMIT_WINDOW

\* the calls of one identity that were not limited in the window starting at w
Passed(id, w) == {k \in 1..Len(log[id]) : ~log[id][k].limited /\ log[id][k].windowStart = w}

Awaiting == {s \in Handlers : handlers[s].pc = "awaiting"}

\* C3: with handlers for one identity in flight at the same time, each suspended
\* only at the await, the requests that pass the rate-limit check within one
\* window never exceed MAX_SUBMISSIONS_PER_EMAIL, and the count is never pushed
\* past the cap.
C3_NoRacePastCap ==
  \A id \in Identities :
    /\ \A w \in Times : Cardinality(Passed(id, w)) <= MAX_SUBMISSIONS_PER_EMAIL
    /\ id \in DOMAIN submissionTracker
         => submissionTracker[id].count <= MAX_SUBMISSIONS_PER_EMAIL

C3_Witness ==
  \E id \in Identities :
    /\ Cardinality(Awaiting) >= 2
    /\ \A s \in Awaiting : Identity(handlers[s].req) = id
    /\ Cardinality(Passed(id, 0)) = MAX_SUBMISSIONS_PER_EMAIL
    /\ last.pc = "done" /\ last.limited /\ Identity(last.req) = id

\* the check of the validation chain that the request fails first, 0 if none
FirstFailing(rec) ==
  LET body == rec.req.body IN
  IF Falsy(body.email) \/ RoleFalsy(body.role) THEN 1
  ELSE IF ~validateEmail(body.email) THEN 2
  ELSE IF rec.limited THEN 3
  ELSE IF ~RoleIncluded(body.role) THEN 4
  ELSE IF NotConfigured(env) THEN 5
  ELSE 0

\* a POST invocation that returned and whose checks ran without an exception
Checked(rec) == rec.pc = "done" /\ rec.req.method = "POST" /\ ~rec.threw

PassedAll(rec) ==
  LET body == rec.req.body IN
  /\ rec.req.method = "POST" /\ body.type = "object"
  /\ ~Falsy(body.email) /\ ~RoleFalsy(body.role)
  /\ validateEmail(body.email)
  /\ rec.consulted /\ ~rec.limited
  /\ body.role.type = "string" /\ body.role.text \in validRoles
  /\ env.NOTION_TOKEN /\ env.NOTION_DATABASE_ID

\* C5: the remote page-creation call is issued only for a request that passed
\* all five validation steps: missing field, invalid email, rate limited, role
\* outside the four values, or token or database id not configured, and no call
\* is made.
C5_CallOnlyAfterValidation ==
  /\ \A s \in Handlers :
       /\ handlers[s].calls > 0 => PassedAll(handlers[s])
       /\ handlers[s].pc = "awaiting" => handlers[s].calls > 0
  /\ last.calls > 0 => PassedAll(last)

C5_Witness ==
  /\ \E s \in Handlers : handlers[s].pc = "awaiting" /\ handlers[s].calls = 1
  /\ Checked(last) /\ last.calls = 0
  /\ Answer = Json(400, FALSE, "Invalid role selected")

\* the status the caller gets for an outcome of the remote call
MappedStatus(outcome) ==
  IF outcome.ok THEN 200
  ELSE IF outcome.error.response
    THEN CASE outcome.error.status = 400 -> 400
           [] outcome.error.status = 401 -> 500
           [] outcome.error.status = 404 -> 500
           [] outcome.error.status = 429 -> 429
           [] OTHER -> 500
  ELSE IF outcome.error.code = "ECONNABORTED" THEN 408
  ELSE 500

\* C6: the outcome of the remote call maps to the response by a fixed total
\* mapping: success 200 with success = true; upstream 400 -> 400, 401 -> 500,
\* 404 -> 500, 429 -> 429, any other status -> 500; timeout -> 408; no response
\* and no timeout -> 500; success = false in every case but the first.
C6_OutcomeMapping ==
  (last.pc = "done" /\ last.calls > 0) =>
    /\ Len(last.sent) = 1
    /\ Answer.json
    /\ Answer.status = MappedStatus(last.outcome)
    /\ Answer.success = last.outcome.ok

C6_Witness ==
  /\ last.pc = "done" /\ last.calls > 0
  /\ last.outcome = Rejected(ErrResponse(401))
  /\ Answer.status = 500 /\ ~Answer.success

\* C7: no retry: an invocation issues at most one remote call, and when that
\* call has failed the handler has answered once without issuing another.
C7_NoRetry ==
  /\ \A s \in Handlers : handlers[s].calls <= 1
  /\ last.calls <= 1
  /\ (last.pc = "done" /\ last.outcome # Pending /\ ~last.outcome.ok) =>
       (last.calls = 1 /\ Len(last.sent) = 1 /\ ~Answer.success)

C7_Witness ==
  /\ last.pc = "done" /\ last.calls = 1
  /\ last.outcome = Rejected(ErrTimeout)
  /\ Answer.status = 408
  /\ \A s \in Handlers : handlers[s].pc = "idle"

\* every POST invocation that returned sent exactly one JSON response, and an
\* exception thrown in the try block was answered by the catch block
OneResponse ==
  /\ (last.pc = "done" /\ last.req.method = "POST") =>
       /\ Len(last.sent) = 1
       /\ Answer.json
       /\ Answer.status \in {200, 400, 408, 429, 500}
       /\ last.threw =>
            Answer = Json(500, FALSE,
                          "Network error. Please check your connection and try again.")
  /\ \A s \in Handlers : handlers[s].pc = "awaiting" => handlers[s].sent = <<>>

\* C8: every POST request ends with exactly one response sent by the handler:
\* validation failures, upstream errors, timeouts, network failures and any
\* other exception of the try block become a response and none escapes; and as
\* the remote call always settles, every suspended invocation gets its response.
C8_AlwaysOneResponse ==
  /\ []OneResponse
  /\ \A s \in Handlers : (handlers[s].pc = "awaiting") ~> (handlers[s].pc = "idle")

C8_Witness ==
  /\ last.pc = "done" /\ last.req.method = "POST" /\ last.threw
  /\ last.req.body.type = "object"
  /\ Len(last.sent) = 1 /\ Answer.status = 500
  /\ \E s \in Handlers : handlers[s].pc = "awaiting"

\* this step recorded a call of isRateLimited for id
Called(id) == Len(log'[id]) = Len(log[id]) + 1

\* C9: a blocked attempt does not count: when isRateLimited(id) returns limited,
\* the entry of id (count and firstSubmission) and every other entry of the map
\* are left as they were.
C9_BlockedLeavesMapUnchanged ==
  [][\A id \in Identities :
       (Called(id) /\ log'[id][Len(log'[id])].limited)
         => submissionTracker' = submissionTracker]_vars

C9_Witness ==
  /\ DOMAIN submissionTracker = Identities
  /\ last.pc = "done" /\ last.limited
  /\ \E id \in Identities :
       /\ Len(log[id]) = 4 /\ log[id][4].limited
       /\ submissionTracker[id] = [count |-> 3, firstSubmission |-> log[id][1].t]

\* a call for id leaves the entry of every other identity as it was
OthersUntouched(id) ==
  \A other \in Identities \ {id} :
    /\ (other \in DOMAIN submissionTracker') = (other \in DOMAIN submissionTracker)
    /\ other \in DOMAIN submissionTracker
         => submissionTracker'[other] = submissionTracker[other]

\* two identities called at the same clock readings got the same verdicts and
\* the same entries, whatever calls for other identities came in between
SameTimesSameResults ==
  \A a \in Identities : \A b \in Identities :
    \A k \in 1..Len(log[a]) :
      (k <= Len(log[b]) /\ \A m \in 1..k : log[a][m].t = log[b][m].t)
        => log[a][k] = log[b][k]

\* C10: requests for different identities never contend: a call for one identity
\* leaves the entry of every other identity unchanged, and its result depends
\* only on the calls and clock readings of its own identity.
C10_IdentitiesIndependent ==
  /\ [][\A id \in Identities : Called(id) => OthersUntouched(id)]_vars
  /\ []SameTimesSameResults

C10_Witness ==
  \E a \in Identities : \E b \in Identities \ {a} :
    /\ Len(log[a]) = 3 /\ Len(log[b]) = 2
    /\ log[a][1].t = log[b][1].t /\ log[a][2].t = log[b][2].t
    /\ log[a][3].t > log[b][2].t
    /\ submissionTracker[a].count # submissionTracker[b].count

----------------------------------------------------------------------------
(* The upstream-detail specification: one well-formed request, credentials  *)
(* configured, and every failure of the remote call with two different      *)
(* bodies or messages.                                                      *)

DetailRequests ==
  {Post(ObjectBody(Str(<<"a", "@", "b", ".", "c">>), RoleStr("School / Institute")))}

Details == {"object not found: 3f2a", "body.properties.Role is invalid"}

DetailOutcomes ==
  {Resolved}
    \cup {Rejected(WithData(e, d)) :
            e \in {ErrTimeout, ErrNetwork} \cup {ErrResponse(st) : st \in UpstreamStatuses},
            d \in Details}

NextDetail ==
  \/ Tick
  \/ \E s \in Handlers : \E req \in DetailRequests : Receive(s, req)
  \/ \E s \in Handlers : \E outcome \in DetailOutcomes : Settle(s, outcome)

SpecDetail == InitRace /\ [][NextDetail]_vars

\* the messages the handler can send
FixedMessages ==
  {"Email and role are required",
   "Please enter a valid email address",
   "Too many submissions. Please try again later.",
   "Invalid role selected",
   "Server configuration error. Please contact support.",
   "Successfully added to waitlist! We'll be in touch soon.",
   "Invalid request format. Please try again.",
   "Server authentication error. Please contact support.",
   "Database configuration error. Please contact support.",
   "Server is busy. Please try again in a moment.",
   "Something went wrong. Please try again.",
   "Request timeout. Please try again.",
   "Network error. Please check your connection and try again."}

\* an invocation that returned after its remote call settled
Settled(rec) == rec.pc = "done" /\ rec.calls > 0

\* two outcomes that differ at most in the upstream body or message
SameButDetail(o1, o2) ==
  /\ o1.ok = o2.ok
  /\ WithData(o1.error, "") = WithData(o2.error, "")

\* C11: the response never carries upstream detail: two executions of the same
\* request whose upstream outcomes differ only in the error body or message get
\* the same status and the same {success, message}, and the message is always
\* one of the handler's fixed strings.
C11_NoUpstreamDetail ==
  /\ [][(Settled(last) /\ Settled(last') /\ last'.req = last.req
          /\ SameButDetail(last.outcome, last'.outcome))
        => last'.sent = last.sent]_vars
  /\ [](last.pc = "done" =>
          \A i \in 1..Len(last.sent) : last.sent[i].message \in FixedMessages)

C11_Witness ==
  /\ Settled(last)
  /\ last.outcome.error.response /\ last.outcome.error.status = 404
  /\ last.outcome.error.data = "object not found: 3f2a"
  /\ Answer = Json(500, FALSE, "Database configuration error. Please contact support.")

----------------------------------------------------------------------------
\* the calls of one identity made at a time in [from, to] that were not limited
PassedBetween(id, from, to) ==
  {k \in 1..Len(log[id]) :
     ~log[id][k].limited /\ from <= log[id][k].t /\ log[id][k].t <= to}

\* the window starts the entry of an identity has had
WindowStarts(id) == {log[id][k].windowStart : k \in 1..Len(log[id])}

\* C12 as stated (sliding window): in any interval of length RATE_LIMIT_WINDOW,
\* wherever it begins, at most MAX_SUBMISSIONS_PER_EMAIL calls of one identity
\* are not limited.
C12_SlidingWindow ==
  \A id \in Identities : \A a \in Times :
    Cardinality(PassedBetween(id, a, a + RATE_LIMIT_WINDOW - 1))
      <= MAX_SUBMISSIONS_PER_EMAIL

\* C12 (amended): the window is fixed, not sliding: in an interval of length
\* RATE_LIMIT_WINDOW that begins at a window start of the identity (the call
\* that created or reset its entry) at most MAX_SUBMISSIONS_PER_EMAIL calls are
\* not limited; an interval that straddles a reset is not bounded so.
C12_FixedWindow ==
  \A id \in Identities : \A w \in WindowStarts(id) :
    Cardinality(PassedBetween(id, w, w + RATE_LIMIT_WINDOW))
      <= MAX_SUBMISSIONS_PER_EMAIL

C12_Witness ==
  \E id \in Identities :
    /\ WindowStarts(id) = {0, RATE_LIMIT_WINDOW + 1}
    /\ Cardinality(PassedBetween(id, 0, RATE_LIMIT_WINDOW)) = MAX_SUBMISSIONS_PER_EMAIL
    /\ Cardinality(PassedBetween(id, RATE_LIMIT_WINDOW, 2 * RATE_LIMIT_WINDOW - 1))
         > MAX_SUBMISSIONS_PER_EMAIL

----------------------------------------------------------------------------
(* The letter-case specification: one address typed in two casings,         *)
(* credentials configured, the remote call succeeding.                      *)

CaseRequests ==
  {Post(ObjectBody(Str(chars), RoleStr("Developer / Researcher"))) :
     chars \in {<<"a", "@", "b", ".", "c">>, MixedEmail}}

NextCase ==
  \/ Tick
  \/ \E s \in Handlers : \E req \in CaseRequests : Receive(s, req)
  \/ \E s \in Handlers : Settle(s, Resolved)

SpecCase == InitRace /\ [][NextCase]_vars

\* the key both casings of CaseRequests fall under
CaseKey == <<"a", "@", "b", ".", "c">>

\* this step is the arrival of a request (the clock stands, no call settles)
Arrives ==
  /\ now' = now
  /\ \A s \in Handlers : handlers[s].pc = "awaiting" => handlers'[s] = handlers[s]

\* the entry under CaseKey is at the cap and its window is still open
CaseQuotaSpent ==
  /\ CaseKey \in DOMAIN submissionTracker
  /\ submissionTracker[CaseKey].count = MAX_SUBMISSIONS_PER_EMAIL
  /\ now - submissionTracker[CaseKey].firstSubmission <= RATE_LIMIT_WINDOW

\* C13: the rate-limit key is the lower-cased email: requests whose emails
\* differ only in letter case share one entry and one quota (each passing one,
\* whatever its casing, adds to the same count), and once the quota is spent a
\* further request under either casing within the window is answered 429.
C13_CasingsShareQuota ==
  /\ [](DOMAIN submissionTracker \subseteq {CaseKey})
  /\ [][(Arrives /\ CaseKey \in DOMAIN submissionTracker /\ ~CaseQuotaSpent)
          => /\ CaseKey \in DOMAIN submissionTracker'
             /\ submissionTracker'[CaseKey].count
                  \in {1, submissionTracker[CaseKey].count + 1}]_vars
  /\ [][(Arrives /\ CaseQuotaSpent)
          => /\ last'.limited
             /\ last'.sent = <<Json(429, FALSE, "Too many submissions. Please try again later.")>>
             /\ submissionTracker' = submissionTracker]_vars

C13_Witness ==
  /\ CaseQuotaSpent
  /\ \E s \in Handlers :
       handlers[s].pc = "awaiting" /\ handlers[s].req.body.email.chars = CaseKey
  /\ last.pc = "done" /\ last.limited /\ last.req.body.email.chars = MixedEmail
  /\ Answer.status = 429

----------------------------------------------------------------------------
\* the role of a POSTed object body is not one of the four, letter for letter
RoleOutside(rec) ==
  /\ rec.req.method = "POST" /\ rec.req.body.type = "object"
  /\ \A valid \in validRoles : rec.req.body.role # RoleStr(valid)

\* C14: a request whose role is not exactly, case-sensitively, one of the four
\* valid roles is always rejected: whatever the limiter holds and whatever the
\* configuration is, it is answered success = false and no remote call is made
\* for it.
C14_RoleOutsideRejected ==
  /\ \A s \in Handlers : handlers[s].pc = "awaiting" => ~RoleOutside(handlers[s])
  /\ (last.pc = "done" /\ RoleOutside(last)) =>
       /\ last.calls = 0
       /\ Len(last.sent) = 1 /\ Answer.json /\ ~Answer.success

C14_Witness ==
  /\ last.pc = "done" /\ last.req.body.role = RoleStr("student / learner")
  /\ last.consulted /\ ~last.limited
  /\ env.NOTION_TOKEN /\ env.NOTION_DATABASE_ID
  /\ Answer = Json(400, FALSE, "Invalid role selected")

----------------------------------------------------------------------------
\* the identities that have reached the limiter at least once
Seen == {id \in Identities : Len(log[id]) > 0}

\* C15: an entry of the rate-limit map is never destroyed: the set of keys only
\* grows, the entry of an identity is created by its first submission that
\* reaches the limiter, and it is in the map ever after, whether or not its
\* window is over.
C15_EntriesNeverRemoved ==
  /\ [][/\ DOMAIN submissionTracker \subseteq DOMAIN submissionTracker'
        /\ \A id \in Identities : Called(id) => id \in DOMAIN submissionTracker']_vars
  /\ [](DOMAIN submissionTracker = Seen)

C15_Witness ==
  /\ DOMAIN submissionTracker = Identities
  /\ \E id, other \in Identities :
       /\ id # other
       /\ now - submissionTracker[id].firstSubmission > RATE_LIMIT_WINDOW
       /\ Len(log[other]) > 0
       /\ log[other][Len(log[other])].t = now
       /\ log[id][Len(log[id])].t < now

----------------------------------------------------------------------------
\* The five-step fixed-window algorithm, run on its own over the clock readings
\* of the first k calls of a sequence: the entry it holds and its last verdict.
RECURSIVE Reference(_, _)
Reference(S, k) ==
  IF k = 0 THEN [present |-> FALSE, count |-> 0, windowStart |-> 0, limited |-> FALSE]
  ELSE LET e == Reference(S, k - 1)
           t == S[k].t
       IN IF ~e.present                                              \* step 2
            THEN [present |-> TRUE, count |-> 1, windowStart |-> t, limited |-> FALSE]
          ELSE IF t > e.windowStart + RATE_LIMIT_WINDOW              \* step 3
            THEN [present |-> TRUE, count |-> 1, windowStart |-> t, limited |-> FALSE]
          ELSE IF ~(e.count < MAX_SUBMISSIONS_PER_EMAIL)             \* step 4
            THEN [e EXCEPT !.limited = TRUE]
          ELSE [e EXCEPT !.count = e.count + 1, !.limited = FALSE]   \* step 5

\* C16: over every sequence of calls and clock readings isRateLimited does what
\* the five-step fixed-window algorithm does (same verdict, same count, same
\* window start after each call), the boundary included: a call made exactly
\* RATE_LIMIT_WINDOW after the window start is judged against the old window.
C16_MatchesReference ==
  \A id \in Identities :
    /\ \A k \in 1..Len(log[id]) :
         LET e == Reference(log[id], k) IN
         /\ log[id][k].limited = e.limited
         /\ log[id][k].count = e.count
         /\ log[id][k].windowStart = e.windowStart
    /\ Len(log[id]) > 0 =>
         /\ id \in DOMAIN submissionTracker
         /\ submissionTracker[id].count = Reference(log[id], Len(log[id])).count
         /\ submissionTracker[id].firstSubmission
              = Reference(log[id], Len(log[id])).windowStart

C16_Witness ==
  \E id, other \in Identities :
    /\ Len(log[id]) = 4 /\ log[id][4].limited
    /\ log[id][4].t = log[id][4].windowStart + RATE_LIMIT_WINDOW
    /\ Len(log[other]) = 1
    /\ last.pc = "done" /\ last.limited /\ Answer.status = 429

----------------------------------------------------------------------------
(* The quota specification: one identity whose requests all pass the        *)
(* limiter's door and are then turned down: by the role check, by a missing *)
(* database id, or by a remote call that fails or times out.                *)

QuotaKey == <<"a", "@", "b", ".", "c">>

QuotaRequests ==
  {Post(ObjectBody(Str(QuotaKey), RoleStr(text))) : text \in {"Tutor / Teacher", "Parent"}}

QuotaOutcomes == {Rejected(ErrTimeout), Rejected(ErrNetwork), Rejected(ErrResponse(500))}

InitQuota ==
  /\ now = 0
  /\ env \in {[NOTION_TOKEN |-> TRUE, NOTION_DATABASE_ID |-> b] : b \in BOOLEAN}
  /\ submissionTracker = <<>>
  /\ handlers = [s \in Handlers |-> Idle]
  /\ last = Idle
  /\ log = EmptyLog
  /\ express = ExpressStart

NextQuota ==
  \/ Tick
  \/ \E s \in Handlers : \E req \in QuotaRequests : ReceiveLogged(s, req)
  \/ \E s \in Handlers : \E outcome \in QuotaOutcomes : Settle(s, outcome)

SpecQuota == InitQuota /\ [][NextQuota]_vars

\* the count of QuotaKey went down without its window being started anew
Refunded ==
  /\ QuotaKey \in DOMAIN submissionTracker
  /\ submissionTracker'[QuotaKey].count < submissionTracker[QuotaKey].count
  /\ submissionTracker'[QuotaKey] # [count |-> 1, firstSubmission |-> now]

\* C17: quota is consumed when the limiter is passed and never given back: a
\* request turned down afterwards (invalid role, server not configured, remote
\* call failed or timed out) still counts, so the stored count is the number of
\* requests that passed the limiter in the current window although none was
\* accepted, no step lowers it, and once it is at the cap a fully valid request
\* in the same window is answered 429.
C17_QuotaNotRefunded ==
  /\ [](QuotaKey \in DOMAIN submissionTracker =>
          submissionTracker[QuotaKey].count
            = Cardinality(Passed(QuotaKey, submissionTracker[QuotaKey].firstSubmission)))
  /\ [][~Refunded]_vars
  /\ [](last.pc = "done" =>
          /\ ~Answer.success
          /\ last.limited =>
               Answer = Json(429, FALSE, "Too many submissions. Please try again later."))
  /\ [](\A k \in 1..Len(log[QuotaKey]) :
          log[QuotaKey][k].limited
            = (Cardinality({j \in Passed(QuotaKey, log[QuotaKey][k].windowStart) : j < k})
                 = MAX_SUBMISSIONS_PER_EMAIL
               /\ log[QuotaKey][k].t - log[QuotaKey][k].windowStart <= RATE_LIMIT_WINDOW))

C17_Witness ==
  /\ env.NOTION_DATABASE_ID
  /\ Len(log[QuotaKey]) = 4 /\ log[QuotaKey][4].limited
  /\ log[QuotaKey][4].t - log[QuotaKey][4].windowStart <= RATE_LIMIT_WINDOW
  /\ last.pc = "done" /\ last.limited /\ Answer.status = 429
  /\ last.req.body.role = RoleStr("Tutor / Teacher")
  /\ \E s \in Handlers : handlers[s].pc = "awaiting"

----------------------------------------------------------------------------
\* the responses of the two checks that come before the limiter
EarlyRejections ==
  {<<Json(400, FALSE, "Email and role are required")>>,
   <<Json(400, FALSE, "Please enter a valid email address")>>}

\* this step is a request arriving and being answered at once with an early rejection
RejectedEarly ==
  /\ now' = now /\ handlers' = handlers
  /\ last'.pc = "done" /\ last'.sent \in EarlyRejections

\* C18: a request rejected for a missing field or an invalid email leaves the
\* rate-limit map exactly as it was: the limiter is not called for it, no entry
\* is created or incremented, whatever the map held before.
C18_EarlyRejectionLeavesMap ==
  [][RejectedEarly => (submissionTracker' = submissionTracker /\ ~last'.consulted)]_vars

C18_Witness ==
  /\ last.pc = "done" /\ last.req.body.email = Str(<<"A", "@", "b">>)
  /\ last.sent = <<Json(400, FALSE, "Please enter a valid email address")>>
  /\ DOMAIN submissionTracker = {toLowerCase(MixedEmail)}
  /\ submissionTracker[toLowerCase(MixedEmail)].count = 2
  /\ \E s \in Handlers : handlers[s].pc = "awaiting"

----------------------------------------------------------------------------
\* call j of a sequence opened a window: it created or reset the entry
Opens(S, j) == ~S[j].limited /\ S[j].count = 1

\* C19: a blocked identity is unblocked by the passage of time alone: a blocked
\* attempt never moves the window start, so however many blocked attempts are
\* made and whenever, the first call made more than RATE_LIMIT_WINDOW after the
\* call that opened the window passes the rate-limit check.
C19_UnblockedByTime ==
  \A id \in Identities :
    LET S == log[id] IN
    /\ \A k \in 2..Len(S) :
         S[k].limited => S[k].windowStart = S[k - 1].windowStart
    /\ \A j \in 1..Len(S) : \A m \in (j + 1)..Len(S) :
         (/\ Opens(S, j)
          /\ \A i \in (j + 1)..(m - 1) : ~Opens(S, i)
          /\ S[m].t - S[j].t > RATE_LIMIT_WINDOW)
           => (~S[m].limited /\ S[m].windowStart = S[m].t)

C19_Witness ==
  \E id \in Identities :
    LET S == log[id] IN
    /\ Len(S) = 5
    /\ Opens(S, 1) /\ S[1].t = 0
    /\ S[4].limited /\ S[4].t = RATE_LIMIT_WINDOW
    /\ Opens(S, 5) /\ S[5].t = RATE_LIMIT_WINDOW + 1

----------------------------------------------------------------------------
\* C20: the serverless handler and the Express route are equivalent for POST
\* requests: given the same request bodies at the same clock readings, the same
\* configuration and the same upstream outcomes, from empty maps, they send the
\* same status and {success, message} for every request, issue the remote call
\* for the same requests, and keep equal rate-limit maps.
C20_RouteEquivalent ==
  /\ express.tracker = submissionTracker
  /\ express.last.sent = last.sent
  /\ express.last.calls = last.calls
  /\ \A s \in Handlers :
       /\ express.handlers[s].pc = handlers[s].pc
       /\ express.handlers[s].calls = handlers[s].calls
       /\ express.handlers[s].sent = handlers[s].sent

C20_Witness ==
  /\ express.last.pc = "done" /\ express.last.limited
  /\ express.last.sent = <<Json(429, FALSE, "Too many submissions. Please try again later.")>>
  /\ express.tracker[toLowerCase(MixedEmail)].count = ExpressMaxSubmissionsPerEmail
  /\ \E s \in Handlers :
       express.handlers[s].pc = "awaiting" /\ handlers[s].pc = "awaiting"
  /\ now > RATE_LIMIT_WINDOW

====
